---------------------------- MODULE Spec2Model ----------------------------
(***************************************************************************)
(* A model of the contact-book assistant of src/main.py: the validated     *)
(* fields Phone and Birthday, Record, AddressBook and the command handlers *)
(* that the main loop dispatches to.                                       *)
(*                                                                         *)
(* A Python str is modelled as a sequence of one-character strings, so     *)
(* that len(), str.isdigit() and the regular expression of                 *)
(* datetime.strptime act on the characters themselves.  Two characters     *)
(* outside ASCII are part of the alphabet because Python treats them as    *)
(* digits: U+00B2 SUPERSCRIPT TWO (str.isdigit() is True for it, the       *)
(* regex class \d does not match it) and U+0662 ARABIC-INDIC DIGIT TWO     *)
(* (str.isdigit() is True, \d matches, int() reads it as 2).               *)
(***************************************************************************)
EXTENDS Integers, Sequences, FiniteSets, TLC

VARIABLES
    data,      \* AddressBook.data: the records in insertion order
    clock,     \* the wall-clock date, as datetime.today().date() reads it
    ticks,     \* midnights passed since the program started
    lastOp,    \* the last call made: its name, arguments and locals
    result     \* what the last call returned or raised

vars == <<data, clock, ticks, lastOp, result>>

-----------------------------------------------------------------------------
(* Characters and strings *)

Superscript2 == "<U+00B2>"
ArabicTwo == "<U+0662>"

AsciiDigits == {"0", "1", "2", "3", "4", "5", "6", "7", "8", "9"}
NonZeroAsciiDigits == AsciiDigits \ {"0"}

\* str.isdigit() on one character: decimal characters and the characters
\* with the Unicode property Numeric_Type=Digit.
IsDigitChar(c) == c \in AsciiDigits \cup {Superscript2, ArabicTwo}

\* The regular expression class \d of a str pattern: Unicode decimal digits.
IsReDigit(c) == c \in AsciiDigits \cup {ArabicTwo}

\* int() of one decimal digit.
DigitValue(c) ==
    CASE c = "0" -> 0 [] c = "1" -> 1 [] c = "2" -> 2 [] c = "3" -> 3
      [] c = "4" -> 4 [] c = "5" -> 5 [] c = "6" -> 6 [] c = "7" -> 7
      [] c = "8" -> 8 [] c = "9" -> 9 [] c = ArabicTwo -> 2

\* int() of a string of decimal digits, read up to its character n.
RECURSIVE IntUpTo(_, _)
IntUpTo(s, n) ==
    IF n = 0 THEN 0 ELSE 10 * IntUpTo(s, n - 1) + DigitValue(s[n])

IntOf(s) == IntUpTo(s, Len(s))

\* str.isdigit(): every character is a digit and there is at least one.
isdigit(s) == Len(s) > 0 /\ \A i \in 1..Len(s) : IsDigitChar(s[i])

-----------------------------------------------------------------------------
(* Exceptions: the class raised and its message *)

NoExc == [type |-> "", msg |-> ""]
ValueError(m) == [type |-> "ValueError", msg |-> m]
KeyError(m) == [type |-> "KeyError", msg |-> m]

MsgTenDigits == "Phone number must contain 10 digits"
MsgOnlyNumbers == "Phone number must contain only numbers"
MsgDateFormat == "Invalid date format. Use DD.MM.YYYY"
MsgPhoneExists == "Phone already exists."
MsgPhoneNotFound == "Phone '{old_phone}' not found for contact '{self.name.value}'."
MsgContactNotFound == "Contact not found."
MsgUnpack == "not enough values to unpack"
MsgStrptime == "time data does not match format '%d.%m.%Y'"

-----------------------------------------------------------------------------
(* Phone *)

\* Phone.validate_number: the value stored, or the ValueError raised.
validate_number(number) ==
    IF Len(number) # 10 THEN [exc |-> ValueError(MsgTenDigits), value |-> <<>>]
    ELSE IF ~isdigit(number) THEN [exc |-> ValueError(MsgOnlyNumbers), value |-> <<>>]
    ELSE [exc |-> NoExc, value |-> number]

\* Phone.__init__
Phone(number) == validate_number(number)

-----------------------------------------------------------------------------
(* Calendar dates, as datetime.date computes them *)

Date(y, m, d) == [year |-> y, month |-> m, day |-> d]

IsLeap(y) == y % 4 = 0 /\ (y % 100 # 0 \/ y % 400 = 0)

DaysInMonth(y, m) ==
    IF m = 2 THEN (IF IsLeap(y) THEN 29 ELSE 28)
    ELSE IF m \in {4, 6, 9, 11} THEN 30 ELSE 31

\* The date constructor's check: year in MINYEAR..MAXYEAR, a month of the
\* year, a day of the month.
IsValidDate(y, m, d) ==
    /\ y \in 1..9999
    /\ m \in 1..12
    /\ d >= 1 /\ d <= DaysInMonth(y, m)

DaysBeforeYear(y) ==
    (y - 1) * 365 + ((y - 1) \div 4) - ((y - 1) \div 100) + ((y - 1) \div 400)

\* The days of the year before the first of month m: the table
\* _DAYS_BEFORE_MONTH, and one more after February of a leap year.
DaysBeforeMonth(y, m) ==
    <<0, 31, 59, 90, 120, 151, 181, 212, 243, 273, 304, 334>>[m]
      + (IF m > 2 /\ IsLeap(y) THEN 1 ELSE 0)

\* date.toordinal(): 1 January of year 1 is day 1.
ToOrdinal(dt) == DaysBeforeYear(dt.year) + DaysBeforeMonth(dt.year, dt.month) + dt.day

\* date.fromordinal(n), the inverse of toordinal.
FromOrdinal(n) ==
    LET y == CHOOSE yy \in (n \div 366)..((n \div 365) + 1) :
                 DaysBeforeYear(yy) < n /\ n <= DaysBeforeYear(yy + 1)
        r == n - DaysBeforeYear(y)
        m == CHOOSE mm \in 1..12 :
                 /\ DaysBeforeMonth(y, mm) < r
                 /\ r <= DaysBeforeMonth(y, mm) + DaysInMonth(y, mm)
    IN Date(y, m, r - DaysBeforeMonth(y, m))

\* date.weekday(): Monday is 0, Sunday is 6.
weekday(dt) == (ToOrdinal(dt) + 6) % 7

\* date < date
DateLess(a, b) == ToOrdinal(a) < ToOrdinal(b)

\* (a - b).days
DaysBetween(a, b) == ToOrdinal(a) - ToOrdinal(b)

\* date + timedelta(days=k)
AddDays(dt, k) == FromOrdinal(ToOrdinal(dt) + k)

\* date.replace(year=y, day=d): the new date, or the ValueError of an
\* impossible one.
Replace(dt, y, d) ==
    IF IsValidDate(y, dt.month, d)
    THEN [exc |-> NoExc, value |-> Date(y, dt.month, d)]
    ELSE [exc |-> ValueError("day is out of range for month"), value |-> dt]

\* greet_date.strftime("%d.%m.%Y"): two digits, two digits, four digits.
Digit(n) == <<"0", "1", "2", "3", "4", "5", "6", "7", "8", "9">>[n + 1]
strftime(dt) ==
    << Digit(dt.day \div 10), Digit(dt.day % 10), ".",
       Digit(dt.month \div 10), Digit(dt.month % 10), ".",
       Digit(dt.year \div 1000), Digit((dt.year \div 100) % 10),
       Digit((dt.year \div 10) % 10), Digit(dt.year % 10) >>

-----------------------------------------------------------------------------
(* datetime.strptime(value, "%d.%m.%Y") *)

At(s, i) == IF i \in 1..Len(s) THEN s[i] ELSE "<end>"

\* %d is (3[0-1]|[1-2]\d|0[1-9]|[1-9]| [1-9]): the lengths of the matches
\* that start at position i.
ReDay(s, i) ==
    { L \in {1, 2} :
        \/ L = 2 /\ At(s, i) = "3" /\ At(s, i + 1) \in {"0", "1"}
        \/ L = 2 /\ At(s, i) \in {"1", "2"} /\ IsReDigit(At(s, i + 1))
        \/ L = 2 /\ At(s, i) = "0" /\ At(s, i + 1) \in NonZeroAsciiDigits
        \/ L = 1 /\ At(s, i) \in NonZeroAsciiDigits
        \/ L = 2 /\ At(s, i) = " " /\ At(s, i + 1) \in NonZeroAsciiDigits }

\* The group's text with the blank of " [1-9]" dropped, as int() reads it.
Strip(s) == IF Len(s) > 0 /\ s[1] = " " THEN Tail(s) ELSE s

\* %m is (1[0-2]|0[1-9]|[1-9])
ReMonth(s, i) ==
    { L \in {1, 2} :
        \/ L = 2 /\ At(s, i) = "1" /\ At(s, i + 1) \in {"0", "1", "2"}
        \/ L = 2 /\ At(s, i) = "0" /\ At(s, i + 1) \in NonZeroAsciiDigits
        \/ L = 1 /\ At(s, i) \in NonZeroAsciiDigits }

\* %Y is (\d\d\d\d)
ReYear(s, i) == \A k \in 0..3 : IsReDigit(At(s, i + k))

\* The matches of (%d)\.(%m)\.(%Y) at the start of s, as <<length of the day
\* group, length of the month group>>.  Neither group holds a ".", so at
\* most one pair matches and the alternatives' order decides nothing.
ReMatches(s) ==
    { p \in {1, 2} \X {1, 2} :
        /\ p[1] \in ReDay(s, 1)
        /\ At(s, p[1] + 1) = "."
        /\ p[2] \in ReMonth(s, p[1] + 2)
        /\ At(s, p[1] + p[2] + 2) = "."
        /\ ReYear(s, p[1] + p[2] + 3) }

\* strptime: no match, or unconverted data after the match, or a date that
\* does not exist, is a ValueError; otherwise the date parsed.
Parsed(s, p) ==
    LET end == p[1] + p[2] + 6
        d == IntOf(Strip(SubSeq(s, 1, p[1])))
        m == IntOf(SubSeq(s, p[1] + 2, p[1] + p[2] + 1))
        y == IntOf(SubSeq(s, p[1] + p[2] + 3, end))
    IN IF Len(s) # end
       THEN [exc |-> ValueError("unconverted data remains"), value |-> Date(0, 0, 0)]
       ELSE IF ~IsValidDate(y, m, d)
       THEN [exc |-> ValueError("day is out of range for month"), value |-> Date(0, 0, 0)]
       ELSE [exc |-> NoExc, value |-> Date(y, m, d)]

strptime(s) ==
    LET found == ReMatches(s)
    IN IF found = {}
       THEN [exc |-> ValueError(MsgStrptime), value |-> Date(0, 0, 0)]
       ELSE Parsed(s, CHOOSE q \in found : TRUE)

-----------------------------------------------------------------------------
(* Birthday *)

\* Birthday.__init__: the raw string is stored once strptime accepts it.
Birthday(value) ==
    IF strptime(value).exc # NoExc
    THEN [exc |-> ValueError(MsgDateFormat), value |-> <<>>]
    ELSE [exc |-> NoExc, value |-> value]

-----------------------------------------------------------------------------
(* Record: self.phones is a list of phone values, self.birthday the raw    *)
(* string of a Birthday, or None                                           *)

None == <<>>

\* Record.__init__
Record(name) == [name |-> name, phones |-> <<>>, birthday |-> None]

\* any(p.value == number for p in self.phones)
HasPhone(phones, number) == \E i \in 1..Len(phones) : phones[i] = number

\* add_phone with the duplicate check left out.
add_phone_unchecked(phones, number) ==
    IF Phone(number).exc # NoExc
    THEN [exc |-> Phone(number).exc, phones |-> phones]
    ELSE [exc |-> NoExc, phones |-> Append(phones, Phone(number).value)]

\* Record.add_phone: the duplicate check comes first, then Phone(number)
\* validates, then the append.
add_phone(phones, number) ==
    IF HasPhone(phones, number)
    THEN [exc |-> ValueError(MsgPhoneExists), phones |-> phones]
    ELSE IF Phone(number).exc # NoExc
    THEN [exc |-> Phone(number).exc, phones |-> phones]
    ELSE [exc |-> NoExc, phones |-> Append(phones, Phone(number).value)]

\* Record.remove_phone
remove_phone(phones, number) == SelectSeq(phones, LAMBDA p : p # number)

\* edit_phone with every phone equal to old_phone replaced, not the first.
edit_phone_every(phones, old_phone, new_phone) ==
    IF ~HasPhone(phones, old_phone)
    THEN [exc |-> ValueError(MsgPhoneNotFound), phones |-> phones]
    ELSE IF Phone(new_phone).exc # NoExc
    THEN [exc |-> Phone(new_phone).exc, phones |-> phones]
    ELSE [exc |-> NoExc,
          phones |-> [k \in 1..Len(phones) |->
                        IF phones[k] = old_phone THEN Phone(new_phone).value
                        ELSE phones[k]]]

\* Record.edit_phone: the first phone equal to old_phone is replaced by
\* Phone(new_phone); a ValueError when the loop ends without a match.
edit_phone(phones, old_phone, new_phone) ==
    IF ~HasPhone(phones, old_phone)
    THEN [exc |-> ValueError(MsgPhoneNotFound), phones |-> phones]
    ELSE LET i == CHOOSE k \in 1..Len(phones) :
                      /\ phones[k] = old_phone
                      /\ \A j \in 1..(k - 1) : phones[j] # old_phone
         IN IF Phone(new_phone).exc # NoExc
            THEN [exc |-> Phone(new_phone).exc, phones |-> phones]
            ELSE [exc |-> NoExc,
                  phones |-> [phones EXCEPT ![i] = Phone(new_phone).value]]

\* Record.add_birthday
add_birthday(birthday, date_str) ==
    IF Birthday(date_str).exc # NoExc
    THEN [exc |-> Birthday(date_str).exc, birthday |-> birthday]
    ELSE [exc |-> NoExc, birthday |-> Birthday(date_str).value]

-----------------------------------------------------------------------------
(* AddressBook: a UserDict, its entries kept in insertion order *)

\* AddressBook.find: the position of the record under name; 0 stands for
\* the None of self.data.get(name).
find(book, name) ==
    IF \E i \in 1..Len(book) : book[i].name = name
    THEN CHOOSE i \in 1..Len(book) : book[i].name = name
    ELSE 0

\* AddressBook.add_record: self.data[record.name.value] = record
add_record(book, record) ==
    IF find(book, record.name) # 0
    THEN [book EXCEPT ![find(book, record.name)] = record]
    ELSE Append(book, record)

\* delete as self.data.pop(name, None): silent when the name is no key.
delete_silent(book, name) ==
    [exc |-> NoExc, book |-> SelectSeq(book, LAMBDA r : r.name # name)]

\* AddressBook.delete
delete(book, name) ==
    IF find(book, name) # 0
    THEN [exc |-> NoExc, book |-> SelectSeq(book, LAMBDA r : r.name # name)]
    ELSE [exc |-> KeyError(MsgContactNotFound), book |-> book]

\* replace(year=...) without the except branch.
ReplaceYearNoFallback(original_bday, y) == Replace(original_bday, y, original_bday.day)

\* The try/except around original_bday.replace(year=...): the birthday in
\* year y, on the 28th when the date does not exist in that year.
ReplaceYear(original_bday, y) ==
    IF Replace(original_bday, y, original_bday.day).exc = NoExc
    THEN Replace(original_bday, y, original_bday.day)
    ELSE Replace(original_bday, y, 28)

\* bday_this_year as line 99 reads it: this year's, or next year's when
\* this year's is before today.
BdayThisYear(original_bday, today) ==
    IF ReplaceYear(original_bday, today.year).exc # NoExc
    THEN ReplaceYear(original_bday, today.year)
    ELSE IF DateLess(ReplaceYear(original_bday, today.year).value, today)
    THEN ReplaceYear(original_bday, today.year + 1)
    ELSE ReplaceYear(original_bday, today.year)

\* delta = (bday_this_year - today).days
Delta(bday_this_year, today) == DaysBetween(bday_this_year, today)

\* The window with its last day left out.
InWindowExclusive(delta) == 0 <= delta /\ delta < 7

\* 0 <= delta <= 7
InWindow(delta) == 0 <= delta /\ delta <= 7

\* greet_date: moved to Monday from a Saturday or a Sunday.
GreetDate(bday_this_year) ==
    IF weekday(bday_this_year) \in {5, 6}
    THEN AddDays(bday_this_year, 7 - weekday(bday_this_year))
    ELSE bday_this_year

\* AddressBook.get_upcoming_birthdays, from record i on.  upcoming is the
\* list returned; trace keeps the locals bday_this_year and delta of every
\* record with a birthday; exc is the exception that ended the loop.
RECURSIVE ScanFrom(_, _, _, _)
ScanFrom(book, i, today, acc) ==
    IF i > Len(book) THEN acc
    ELSE IF book[i].birthday = None THEN ScanFrom(book, i + 1, today, acc)
    ELSE LET original_bday == strptime(book[i].birthday)
             bty == BdayThisYear(original_bday.value, today)
             delta == Delta(bty.value, today)
             seen == [name |-> book[i].name, bday_this_year |-> bty.value,
                      delta |-> delta]
         IN IF original_bday.exc # NoExc
            THEN [acc EXCEPT !.exc = original_bday.exc]
            ELSE IF bty.exc # NoExc
            THEN [acc EXCEPT !.exc = bty.exc]
            ELSE ScanFrom(book, i + 1, today,
                     [acc EXCEPT
                        !.trace = Append(@, seen),
                        !.upcoming =
                            IF InWindow(delta)
                            THEN Append(@, [name |-> book[i].name,
                                            birthday |-> strftime(GreetDate(bty.value))])
                            ELSE @])

get_upcoming_birthdays(book, today) ==
    ScanFrom(book, 1, today, [exc |-> NoExc, upcoming |-> <<>>, trace |-> <<>>])

-----------------------------------------------------------------------------
(* The state after main() has built the book, and the calls' bookkeeping *)

NoDate == Date(0, 0, 0)

Call(op, args) == [op |-> op, args |-> args, today |-> NoDate, trace |-> <<>>]

\* str(e), as input_error returns it: a KeyError shows its message quoted.
Str(exc) == IF exc.type = "KeyError" THEN "'" \o exc.msg \o "'" ELSE exc.msg

\* What a call gave back.  exc is the exception a method raised, or the one
\* a handler caught; value is the text a handler returned; upcoming is the
\* list of get_upcoming_birthdays; obj is the value of the field a
\* constructor built.
Returned(value) == [exc |-> NoExc, value |-> value, upcoming |-> <<>>, obj |-> <<>>]
Raised(exc) == [exc |-> exc, value |-> "", upcoming |-> <<>>, obj |-> <<>>]
Outcome(exc) == IF exc = NoExc THEN Returned("None") ELSE Raised(exc)
Built(r) == IF r.exc = NoExc THEN [Returned("None") EXCEPT !.obj = r.value]
            ELSE Raised(r.exc)

\* input_error: the handler's text, or str(e) of the exception caught.
Handled(exc, text) == [Raised(exc) EXCEPT !.value = IF exc = NoExc THEN text ELSE Str(exc)]

-----------------------------------------------------------------------------
(* Bounds and the inputs the calls draw from *)

MaxPhones == 2      \* phones one record may hold before add stops
MaxTicks == 1       \* midnights one session may see
NumYears == 2       \* years the wall clock may start in, from 2023 on
MaxSuffix == 3      \* characters typed after the first eight of a phone

Names == {"Ann", "Bob"}

P1 == <<"1", "2", "3", "4", "5", "6", "7", "8", "9", "0">>
P2 == <<"0", "9", "8", "7", "6", "5", "4", "3", "2", "1">>
Sup10 == [i \in 1..10 |-> Superscript2]
Short9 == SubSeq(P1, 1, 9)
Alpha10 == [P1 EXCEPT ![10] = "a"]

\* The numbers the calls on a record are made with: two that Phone accepts
\* and one it rejects.
PhoneArgs == {P1, P2, Short9}

ContactArgs ==
    {<<>>, <<"Ann">>, <<"Bob", P1, P2>>} \cup (Names \X PhoneArgs)

ChangeArgs ==
    {<<"Ann", P1>>, <<"Bob", P2, P1>>} \cup ({"Ann"} \X {P1} \X PhoneArgs)

\* The dates the wall clock may show when the program starts.
Years == 2023..(2022 + NumYears)
ClockDates ==
    UNION { { Date(y, m, d) : d \in 1..DaysInMonth(y, m) } :
              <<y, m>> \in Years \X (1..12) }

\* Birthday strings typed by the user: well-formed ones around the turn of
\* the year, the end of February and the tenth of June, and others.
TypedDays ==
    {<<1, d>> : d \in 1..8} \cup {<<2, d>> : d \in 24..29}
      \cup {<<3, d>> : d \in 1..2} \cup {<<6, d>> : d \in 10..18}
      \cup {<<12, d>> : d \in 25..31}
WellFormedDates == { strftime(Date(2000, md[1], md[2])) : md \in TypedDays }
Unpadded == <<"1", ".", "1", ".", "2", "0", "0", "0">>
OtherDates ==
    { Unpadded,
      <<"3", "1", ".", "0", "2", ".", "2", "0", "2", "0">>,
      <<"0", "0", ".", "0", "1", ".", "2", "0", "0", "0">>,
      <<"0", "1", ".", "1", "3", ".", "2", "0", "0", "0">>,
      <<"2", "0", "0", "0", "-", "0", "1", "-", "0", "1">> }
BirthdayArgs == WellFormedDates \cup OtherDates

-----------------------------------------------------------------------------
(* The command handlers, as functions of their arguments and the book *)

SetPhones(book, i, phones) == [book EXCEPT ![i].phones = phones]

\* add_contact that puts the new record in the book only once its phone
\* was accepted.
add_contact_rollback(args, book) ==
    IF Len(args) < 2
    THEN [book |-> book, exc |-> ValueError(MsgUnpack), message |-> "",
          text |-> ""]
    ELSE LET name == args[1]
             isNew == find(book, name) = 0
             book1 == IF isNew THEN add_record(book, Record(name)) ELSE book
             message == IF isNew THEN "Contact added." ELSE "Contact updated."
             i == find(book1, name)
             r == add_phone(book1[i].phones, args[2])
         IN [book |-> IF r.exc # NoExc THEN book ELSE SetPhones(book1, i, r.phones),
             exc |-> r.exc, message |-> message, text |-> message]

\* add_contact(args, book): the book afterwards, the exception caught, the
\* local message and the text returned.
add_contact(args, book) ==
    IF Len(args) < 2
    THEN [book |-> book, exc |-> ValueError(MsgUnpack), message |-> "",
          text |-> ""]
    ELSE LET name == args[1]
             phone == args[2]
             isNew == find(book, name) = 0
             book1 == IF isNew THEN add_record(book, Record(name)) ELSE book
             message == IF isNew THEN "Contact added." ELSE "Contact updated."
             i == find(book1, name)
             r == add_phone(book1[i].phones, phone)
         IN IF Len(phone) = 0
            THEN [book |-> book1, exc |-> NoExc, message |-> message,
                  text |-> message]
            ELSE [book |-> SetPhones(book1, i, r.phones), exc |-> r.exc,
                  message |-> message, text |-> message]

\* change_phone(args, book)
change_phone(args, book) ==
    IF Len(args) # 3
    THEN [book |-> book, exc |-> ValueError(MsgUnpack)]
    ELSE IF find(book, args[1]) = 0
    THEN [book |-> book, exc |-> KeyError(MsgContactNotFound)]
    ELSE LET i == find(book, args[1])
             r == edit_phone(book[i].phones, args[2], args[3])
         IN [book |-> SetPhones(book, i, r.phones), exc |-> r.exc]

\* add_birthday(args, book), the handler
add_birthday_cmd(args, book) ==
    IF Len(args) # 2
    THEN [book |-> book, exc |-> ValueError(MsgUnpack)]
    ELSE IF find(book, args[1]) = 0
    THEN [book |-> book, exc |-> KeyError(MsgContactNotFound)]
    ELSE LET i == find(book, args[1])
             r == add_birthday(book[i].birthday, args[2])
         IN [book |-> [book EXCEPT ![i].birthday = r.birthday], exc |-> r.exc]

-----------------------------------------------------------------------------
(* The calls *)

\* No record of the book holds more than MaxPhones phones.
WithinBounds(book) == \A i \in 1..Len(book) : Len(book[i].phones) <= MaxPhones

\* Phone(number)
NewPhone(Numbers) ==
    \E number \in Numbers :
      /\ lastOp' = Call("Phone", <<number>>)
      /\ result' = Built(Phone(number))
      /\ UNCHANGED <<data, clock, ticks>>

\* Birthday(value)
NewBirthday(Values) ==
    \E value \in Values :
      /\ lastOp' = Call("Birthday", <<value>>)
      /\ result' = Built(Birthday(value))
      /\ UNCHANGED <<data, clock, ticks>>

\* book.find(name).add_phone(number)
RecordAddPhone ==
    \E name \in Names, number \in PhoneArgs :
      \E i \in {find(data, name)} \ {0} :
        \E r \in {add_phone(data[i].phones, number)} :
          /\ WithinBounds(SetPhones(data, i, r.phones))
          /\ data' = SetPhones(data, i, r.phones)
          /\ lastOp' = Call("add_phone", <<name, number>>)
          /\ result' = Outcome(r.exc)
          /\ UNCHANGED <<clock, ticks>>

\* book.find(name).remove_phone(number)
RecordRemovePhone ==
    \E name \in Names, number \in PhoneArgs :
      \E i \in {find(data, name)} \ {0} :
        /\ data' = SetPhones(data, i, remove_phone(data[i].phones, number))
        /\ lastOp' = Call("remove_phone", <<name, number>>)
        /\ result' = Returned("None")
        /\ UNCHANGED <<clock, ticks>>

\* book.find(name).edit_phone(old_phone, new_phone)
RecordEditPhone ==
    \E name \in Names, old_phone \in PhoneArgs, new_phone \in PhoneArgs :
      \E i \in {find(data, name)} \ {0} :
        \E r \in {edit_phone(data[i].phones, old_phone, new_phone)} :
          /\ data' = SetPhones(data, i, r.phones)
          /\ lastOp' = Call("edit_phone", <<name, old_phone, new_phone>>)
          /\ result' = Outcome(r.exc)
          /\ UNCHANGED <<clock, ticks>>

\* book.delete(name)
BookDelete ==
    \E name \in Names :
      \E r \in {delete(data, name)} :
        /\ data' = r.book
        /\ lastOp' = Call("delete", <<name>>)
        /\ result' = Outcome(r.exc)
        /\ UNCHANGED <<clock, ticks>>

\* The command "add": print(add_contact(args, book))
AddContact(Args) ==
    \E args \in Args :
      \E r \in {add_contact(args, data)} :
        /\ WithinBounds(r.book)
        /\ data' = r.book
        /\ lastOp' = [Call("add_contact", args) EXCEPT !.trace = <<r.message>>]
        /\ result' = Handled(r.exc, r.text)
        /\ UNCHANGED <<clock, ticks>>

\* The command "change": print(change_phone(args, book))
ChangePhone(Args) ==
    \E args \in Args :
      \E r \in {change_phone(args, data)} :
        /\ data' = r.book
        /\ lastOp' = Call("change_phone", args)
        /\ result' = Handled(r.exc, "Phone number updated.")
        /\ UNCHANGED <<clock, ticks>>

\* The command "add-birthday": print(add_birthday(args, book))
AddBirthday(Args) ==
    \E args \in Args :
      \E r \in {add_birthday_cmd(args, data)} :
        /\ data' = r.book
        /\ lastOp' = Call("add_birthday", args)
        /\ result' = Handled(r.exc, "Birthday added.")
        /\ UNCHANGED <<clock, ticks>>

\* The command "birthdays": get_upcoming_birthdays reads the wall clock.
Birthdays ==
    \E today \in {clock} :
      \E r \in {get_upcoming_birthdays(data, today)} :
        /\ lastOp' = [Call("birthdays", <<>>) EXCEPT !.today = today,
                                                     !.trace = r.trace]
        /\ result' = [Handled(r.exc, IF r.upcoming = <<>>
                                     THEN "No birthdays in the next 7 days."
                                     ELSE "{name}: {birthday}")
                        EXCEPT !.upcoming = r.upcoming]
        /\ UNCHANGED <<data, clock, ticks>>

\* Midnight passes while the program waits for the next command.
Tick ==
    /\ ticks < MaxTicks
    /\ clock' = AddDays(clock, 1)
    /\ ticks' = ticks + 1
    /\ UNCHANGED <<data, lastOp, result>>

-----------------------------------------------------------------------------
(* The address book under the calls that change phones and entries *)

Started == Call("main", <<>>)

Init ==
    /\ data = <<>>
    /\ clock = Date(2024, 6, 10)
    /\ ticks = 0
    /\ lastOp = Started
    /\ result = Returned("None")

Next ==
    \/ AddContact(ContactArgs)
    \/ ChangePhone(ChangeArgs)
    \/ RecordAddPhone
    \/ RecordRemovePhone
    \/ RecordEditPhone
    \/ BookDelete

Spec == Init /\ [][Next]_vars

-----------------------------------------------------------------------------
(* The scan for upcoming birthdays, over the books and the clock's dates *)

\* The books the scan is run on: Ann alone with a birthday she typed, or
\* after Bob, whose birthday is 10.06.1990; each is built by the calls that
\* build it in the program.
WithBirthday(name, date_str) ==
    add_birthday_cmd(<<name, date_str>>, add_contact(<<name, P1>>, <<>>).book).book[1]

BirthdayBooks ==
    LET accepted == { b \in BirthdayArgs : Birthday(b).exc = NoExc }
        Bob == WithBirthday("Bob", strftime(Date(1990, 6, 10)))
    IN { add_record(<<>>, WithBirthday("Ann", b)) : b \in accepted }
         \cup { add_record(add_record(<<>>, Bob), WithBirthday("Ann", b)) :
                  b \in {Unpadded, strftime(Date(2000, 2, 29))} }

InitBirthdays ==
    /\ data \in BirthdayBooks
    /\ clock \in ClockDates
    /\ ticks = 0
    /\ lastOp = Started
    /\ result = Returned("None")

NextBirthdays ==
    \/ Birthdays
    \/ Tick

SpecBirthdays == InitBirthdays /\ [][NextBirthdays]_vars

-----------------------------------------------------------------------------
(* Phone construction over typed strings of 8 to 8 + MaxSuffix characters *)

RECURSIVE StringsOver(_, _)
StringsOver(alphabet, n) ==
    IF n = 0 THEN {<<>>}
    ELSE StringsOver(alphabet, n - 1)
           \cup { Append(t, c) : t \in { u \in StringsOver(alphabet, n - 1) :
                                           Len(u) = n - 1 },
                                 c \in alphabet }

PhoneInputs ==
    { <<"0", "1", "2", "3", "4", "5", "6", "7">> \o t :
        t \in StringsOver({"0", "a", Superscript2, ArabicTwo}, MaxSuffix) }

NextPhone ==
    \/ NewPhone(PhoneInputs)
    \/ AddContact({"Ann"} \X {P1, Sup10, Alpha10})

SpecPhone == Init /\ [][NextPhone]_vars

-----------------------------------------------------------------------------
(* Birthday construction over typed day, month and year *)

DayTokens ==
    { <<"1">>, <<"0", "1">>, <<"2", "9">>, <<"3", "1">>, <<"0">>,
      <<"3", "2">>, <<" ", "1">>, <<"0", "0", "1">> }
MonthTokens == { <<"1">>, <<"0", "2">>, <<"2">>, <<"1", "3">>, <<"0", "0">> }
YearTokens ==
    { <<"2", "0", "0", "0">>, <<"2", "0", "2", "3">>, <<"2", "0", "0">>,
      <<"0", "0", "0", "0">>, <<"2", "0", "0", "0", "0">> }

DateInputs ==
    { d \o <<sep>> \o m \o <<sep>> \o y :
        d \in DayTokens, m \in MonthTokens, y \in YearTokens, sep \in {".", "-"} }

NextBirthdayField ==
    \/ NewBirthday(DateInputs)
    \/ AddContact({<<"Ann", P1>>})
    \/ AddBirthday({<<"Ann">>, <<"Bob", Unpadded>>}
                     \cup ({"Ann"} \X {Unpadded, strftime(Date(2000, 2, 29)),
                                       strftime(Date(2020, 2, 31))}))

SpecBirthdayField == Init /\ [][NextBirthdayField]_vars

-----------------------------------------------------------------------------
(* What the specification says, stated over the book and the calls *)

Range(seq) == { seq[i] : i \in 1..Len(seq) }
Keys(book) == { book[i].name : i \in 1..Len(book) }
Entry(book, name) == CHOOSE r \in Range(book) : r.name = name

\* A phone number as the specification defines it: exactly ten of 0-9.
IsTenDecimalDigits(s) == Len(s) = 10 /\ \A i \in 1..Len(s) : s[i] \in AsciiDigits

\* DD.MM.YYYY: two digits, a dot, two digits, a dot, four digits.
StrictDateForm(s) ==
    /\ Len(s) = 10
    /\ s[3] = "." /\ s[6] = "."
    /\ \A i \in {1, 2, 4, 5, 7, 8, 9, 10} : s[i] \in AsciiDigits

NamesRealDate(s) ==
    IsValidDate(IntOf(SubSeq(s, 7, 10)), IntOf(SubSeq(s, 4, 5)), IntOf(SubSeq(s, 1, 2)))

\* 10 June 2024 is a Monday; the days of the week counted from it, Monday 0.
DayOfWeek(dt) == (ToOrdinal(dt) - ToOrdinal(Date(2024, 6, 10))) % 7

\* The birthday in year y: itself, and 28 February for a leap-day birthday
\* in a year that has no 29 February.
IsLeapDay(b) == b.month = 2 /\ b.day = 29
Anniversary(b, y) ==
    IF IsLeapDay(b) /\ ~IsLeap(y) THEN Date(y, 2, 28) ELSE Date(y, b.month, b.day)

\* The first anniversary that is not before today.
NextOccurrence(b, today) ==
    LET near == { Anniversary(b, today.year), Anniversary(b, today.year + 1) }
        ahead == { d \in near : ToOrdinal(d) >= ToOrdinal(today) }
    IN CHOOSE d \in ahead : \A e \in ahead : ToOrdinal(d) <= ToOrdinal(e)

\* The occurrence, or the Monday after it when it is on a weekend.
ExpectedGreet(occ) ==
    CASE DayOfWeek(occ) = 5 -> AddDays(occ, 2)
      [] DayOfWeek(occ) = 6 -> AddDays(occ, 1)
      [] OTHER -> occ

ReportedAt(name) ==
    { k \in 1..Len(result.upcoming) : result.upcoming[k].name = name }

TracedAt(name) ==
    { k \in 1..Len(lastOp.trace) : lastOp.trace[k].name = name }

\* C1: after any calls of add_phone, edit_phone and remove_phone, no two
\* phones of a record are equal.
PhonesDistinct ==
    \A i \in 1..Len(data) :
      \A j, k \in 1..Len(data[i].phones) :
        j # k => data[i].phones[j] # data[i].phones[k]

\* C2: get_upcoming_birthdays reports a contact exactly when the next
\* occurrence of the birthday is 0 to 7 days after today, and the date it
\* reports is that occurrence, or the Monday after it when the occurrence is
\* a Saturday or a Sunday; a reported date is never on a weekend.
UpcomingAreNextOccurrences ==
    lastOp.op = "birthdays" =>
      \A i \in 1..Len(data) :
        data[i].birthday # None =>
          LET occ == NextOccurrence(strptime(data[i].birthday).value, lastOp.today)
              days == ToOrdinal(occ) - ToOrdinal(lastOp.today)
          IN /\ ReportedAt(data[i].name) # {} <=> days \in 0..7
             /\ \A k \in ReportedAt(data[i].name) :
                  /\ result.upcoming[k].birthday = strftime(ExpectedGreet(occ))
                  /\ DayOfWeek(strptime(result.upcoming[k].birthday).value) \notin {5, 6}

\* C2's case: a birthday seven days ahead that falls on a Sunday is
\* reported, for the Monday after it.
SundayBirthdayReported ==
    /\ lastOp.op = "birthdays"
    /\ \E k \in 1..Len(lastOp.trace) :
         /\ lastOp.trace[k].delta = 7
         /\ DayOfWeek(lastOp.trace[k].bday_this_year) = 6
         /\ ReportedAt(lastOp.trace[k].name) # {}

\* C3: with a 29 February birthday in the book get_upcoming_birthdays raises
\* nothing; the occurrence it resolves is in today's year or the next, is 28
\* February when that year is no leap year, and its delta is never negative.
LeapDayResolves ==
    lastOp.op = "birthdays" =>
      /\ result.exc = NoExc
      /\ \A i \in 1..Len(data) :
           (data[i].birthday # None /\ IsLeapDay(strptime(data[i].birthday).value)) =>
             /\ TracedAt(data[i].name) # {}
             /\ \A k \in TracedAt(data[i].name) :
                  LET t == lastOp.trace[k].bday_this_year
                  IN /\ t.year \in {lastOp.today.year, lastOp.today.year + 1}
                     /\ ~IsLeap(t.year) => t = Date(t.year, 2, 28)
                     /\ lastOp.trace[k].delta = ToOrdinal(t) - ToOrdinal(lastOp.today)
                     /\ lastOp.trace[k].delta >= 0

\* C3's case: a leap-day birthday rolled over to 28 February of next year.
LeapDayRolledOver ==
    /\ lastOp.op = "birthdays"
    /\ \E i \in 1..Len(data), k \in 1..Len(lastOp.trace) :
         /\ data[i].birthday # None
         /\ IsLeapDay(strptime(data[i].birthday).value)
         /\ lastOp.trace[k].name = data[i].name
         /\ lastOp.trace[k].bday_this_year = Date(lastOp.today.year + 1, 2, 28)

\* C4: Phone construction fails for every string that is not exactly ten of
\* the digits 0-9 and succeeds, keeping the string, for every string that
\* is; so every phone a record holds is ten of the digits 0-9.
PhoneIsTenDecimalDigits ==
    /\ lastOp.op = "Phone" =>
         /\ IsTenDecimalDigits(lastOp.args[1]) =>
              result.exc = NoExc /\ result.obj = lastOp.args[1]
         /\ ~IsTenDecimalDigits(lastOp.args[1]) => result.exc.type = "ValueError"
    /\ \A i \in 1..Len(data) :
         \A j \in 1..Len(data[i].phones) : IsTenDecimalDigits(data[i].phones[j])

\* C5: Birthday construction fails for every string that is not of the form
\* DD.MM.YYYY or names no calendar date, and succeeds only for a well-formed
\* string that names one.
BirthdayIsStrictRealDate ==
    lastOp.op = "Birthday" =>
      /\ result.exc = NoExc <=>
           (StrictDateForm(lastOp.args[1]) /\ NamesRealDate(lastOp.args[1]))
      /\ result.exc # NoExc => result.exc = ValueError(MsgDateFormat)

\* C6: add_phone with a number the record already holds raises "Phone
\* already exists." and leaves the phones as they were.
DuplicateAddRejected ==
    [][ \A name \in Names, number \in PhoneArgs :
          ( /\ lastOp' = Call("add_phone", <<name, number>>)
            /\ name \in Keys(data)
            /\ number \in Range(Entry(data, name).phones) )
          => /\ result'.exc = ValueError(MsgPhoneExists)
             /\ data' = data ]_vars

\* C6's case: a record that holds a phone after the add of a duplicate failed.
DuplicateAddFailed ==
    /\ lastOp.op = "add_phone"
    /\ result.exc = ValueError(MsgPhoneExists)
    /\ lastOp.args[2] \in Range(Entry(data, lastOp.args[1]).phones)

\* C7: edit_phone with an old number the record does not hold raises the
\* not-found error and changes nothing; with one it holds and a valid new
\* number, the first position equal to old is replaced and nothing else.
EditReplacesFirstMatch ==
    [][ \A name \in Names, old \in PhoneArgs, new \in PhoneArgs :
          ( lastOp' = Call("edit_phone", <<name, old, new>>) /\ name \in Keys(data) )
          => LET before == Entry(data, name).phones
                 after == Entry(data', name).phones
             IN /\ old \notin Range(before) =>
                     /\ result'.exc = ValueError(MsgPhoneNotFound)
                     /\ data' = data
                /\ (old \in Range(before) /\ IsTenDecimalDigits(new)) =>
                     /\ result'.exc = NoExc
                     /\ Len(after) = Len(before)
                     /\ \E k \in 1..Len(before) :
                          /\ before[k] = old
                          /\ \A j \in 1..(k - 1) : before[j] # old
                          /\ after[k] = new
                          /\ \A j \in 1..Len(before) : j # k => after[j] = before[j]
                     /\ Len(data') = Len(data)
                     /\ \A i \in 1..Len(data) :
                          data[i].name # name => data'[i] = data[i] ]_vars

\* C7's case: of two equal phones the first was replaced, the second kept.
FirstOfTwoReplaced ==
    /\ lastOp = Call("edit_phone", <<"Ann", P1, P2>>)
    /\ result.exc = NoExc
    /\ "Ann" \in Keys(data)
    /\ Entry(data, "Ann").phones = <<P2, P1>>

\* C8: delete of a name that is no key raises "Contact not found." and
\* changes nothing; delete of a key removes that entry and no other, and
\* find(name) then returns None.
DeleteRemovesThatEntry ==
    [][ \A name \in Names :
          lastOp' = Call("delete", <<name>>)
          => /\ name \notin Keys(data) =>
                  /\ result'.exc = KeyError(MsgContactNotFound)
                  /\ data' = data
             /\ name \in Keys(data) =>
                  /\ result'.exc = NoExc
                  /\ find(data', name) = 0
                  /\ Keys(data') = Keys(data) \ {name}
                  /\ Len(data') = Len(data) - 1
                  /\ \A other \in Keys(data') :
                       Entry(data', other) = Entry(data, other) ]_vars

\* C8's case: one entry was deleted and the other is still in the book.
DeletedOneOfTwo ==
    /\ lastOp.op = "delete"
    /\ result.exc = NoExc
    /\ Len(data) = 1
    /\ data[1].phones # <<>>

\* C9: the list of get_upcoming_birthdays depends on the book and the today
\* it is given alone: two calls on the same book return the same list.
SameBookSameUpcoming ==
    [][ (lastOp.op = "birthdays" /\ lastOp'.op = "birthdays" /\ data' = data)
        => result'.upcoming = result.upcoming ]_vars

\* C10: add_contact with a name and a phone, for a name not in the book,
\* leaves a record under that name in the book; when Phone rejects the
\* number the handler returns the error's text and the new record stays,
\* with no phones.
FailedAddKeepsRecord ==
    [][ \A args \in ContactArgs :
          ( /\ lastOp'.op = "add_contact"
            /\ lastOp'.args = args
            /\ Len(args) >= 2
            /\ args[1] \notin Keys(data) )
          => /\ args[1] \in Keys(data')
             /\ Phone(args[2]).exc # NoExc =>
                  /\ result'.value = Phone(args[2]).exc.msg
                  /\ result'.value # "Contact added."
                  /\ Entry(data', args[1]).phones = <<>> ]_vars

\* C10's case: the add of a new contact failed on its phone and the record
\* is in the book, without phones.
NewRecordWithoutPhone ==
    /\ lastOp.op = "add_contact"
    /\ lastOp.trace = <<"Contact added.">>
    /\ result.value = MsgTenDigits
    /\ lastOp.args[1] \in Keys(data)
    /\ Entry(data, lastOp.args[1]).phones = <<>>

=============================================================================
